---- MODULE Spec2Model ----
(***************************************************************************)
(* A model of scripts/route_finder.py: the interactive resolution of two   *)
(* endpoints, the route request against the simulator (one control session *)
(* per request), the sampler of background traffic, the two documents that *)
(* are written, and the launch of the viewer.                              *)
(*                                                                         *)
(* Strings are sequences of one-character strings, so that float(),        *)
(* "{:.1f}" and " ".join are computed rather than assumed.  The literal    *)
(* prefixes "route_highlight" and "random_vehicle_" are kept as one atom.  *)
(* Lengths are integers in tenths of a network unit (Scale tenths = 1).    *)
(* Python's None is the empty sequence: every test the script makes on a   *)
(* possibly-None value is a truthiness test, which "" and () fail as well. *)
(***************************************************************************)
EXTENDS Integers, Sequences, FiniteSets, TLC

None == <<>>

\* ------------------------------------------------------------------ bounds
\* At most this many sampled vehicles are recorded in the specifications
\* that explore the contents of the vehicle list (Spec, SceneSpec).
MaxSampled == 2
\* Longest route handed to save_visualization_settings in VizSpec.
MaxRouteLen == 4

\* ------------------------------------------------------- program constants
num_random_vehicles == 50
max_attempts == 1000
max_radius == 1000
\* radius = 0.1, in tenths
initial_radius == 1
\* tenths per unit
Scale == 10

\* ------------------------------------------------------------------ strings
Digits == {"0", "1", "2", "3", "4", "5", "6", "7", "8", "9"}

DigitVal(c) ==
  CASE c = "0" -> 0 [] c = "1" -> 1 [] c = "2" -> 2 [] c = "3" -> 3
    [] c = "4" -> 4 [] c = "5" -> 5 [] c = "6" -> 6 [] c = "7" -> 7
    [] c = "8" -> 8 [] c = "9" -> 9

DigitChar(d) ==
  CASE d = 0 -> "0" [] d = 1 -> "1" [] d = 2 -> "2" [] d = 3 -> "3"
    [] d = 4 -> "4" [] d = 5 -> "5" [] d = 6 -> "6" [] d = 7 -> "7"
    [] d = 8 -> "8" [] d = 9 -> "9"

\* str(n) for n >= 0, as f"{n}" formats it
RECURSIVE IntToStr(_)
IntToStr(n) ==
  IF n < 10 THEN <<DigitChar(n)>>
  ELSE Append(IntToStr(n \div 10), DigitChar(n % 10))

\* The part of s after an optional sign.
Unsigned(s) ==
  IF Len(s) > 0 /\ s[1] \in {"+", "-"} THEN Tail(s) ELSE s

\* float(s) succeeds: an optional sign, digits with at most one point, and
\* at least one digit.  (Exponents, inf, nan, blanks and underscores are not
\* in the alphabet of the inputs of this model.)
IsFloat(s) ==
  LET body == Unsigned(s) IN
    /\ \A i \in 1..Len(body) : body[i] \in Digits \cup {"."}
    /\ Cardinality({i \in 1..Len(body) : body[i] = "."}) <= 1
    /\ \E i \in 1..Len(body) : body[i] \in Digits

RECURSIVE DigitsValue(_)
DigitsValue(ds) ==
  IF ds = <<>> THEN 0
  ELSE 10 * DigitsValue(SubSeq(ds, 1, Len(ds) - 1)) + DigitVal(ds[Len(ds)])

\* float(s) in tenths, for a literal with at most one fractional digit.
FloatTenths(s) ==
  LET body == Unsigned(s)
      dot  == IF \E i \in 1..Len(body) : body[i] = "."
              THEN CHOOSE i \in 1..Len(body) : body[i] = "."
              ELSE Len(body) + 1
      whole == DigitsValue(SubSeq(body, 1, dot - 1))
      frac  == IF dot + 1 <= Len(body) THEN DigitVal(body[dot + 1]) ELSE 0
      mag   == 10 * whole + frac
  IN IF Len(s) > 0 /\ s[1] = "-" THEN 0 - mag ELSE mag

\* f"{t:.1f}" for t >= 0 given in hundredths (no draw of the model sits on
\* a rounding tie).
FormatOneDecimal(h) ==
  LET t == (h + 5) \div 10
  IN IntToStr(t \div 10) \o <<".", DigitChar(t % 10)>>

\* " ".join(parts)
RECURSIVE Join(_)
Join(parts) ==
  IF parts = <<>> THEN <<>>
  ELSE IF Len(parts) = 1 THEN parts[1]
  ELSE parts[1] \o <<" ">> \o Join(Tail(parts))

\* The reader's view of an edges attribute: s.split(" ").
RECURSIVE SplitFrom(_, _, _)
SplitFrom(s, i, cur) ==
  IF i > Len(s) THEN <<cur>>
  ELSE IF s[i] = " " THEN <<cur>> \o SplitFrom(s, i + 1, <<>>)
  ELSE SplitFrom(s, i + 1, Append(cur, s[i]))

Split(s) == IF s = <<>> THEN <<>> ELSE SplitFrom(s, 1, <<>>)

\* The elements of a sequence
Range(s) == {s[i] : i \in 1..Len(s)}

\* ------------------------------------------------------------------ network
\* A loaded network: the edges in file order, each edge's lanes (TRUE: the
\* lane allows "passenger") and its shape, here one point (x, y) in units.
NetAlpha ==
  [edges |-> << <<"A">>, <<"W">> >>,
   lanes |-> ( <<"A">> :> <<FALSE, TRUE>> @@ <<"W">> :> <<FALSE>> ),
   shape |-> ( <<"A">> :> <<0, 0>> @@ <<"W">> :> <<7, 0>> )]

\* The same layout with a numeric edge identifier.
NetNumeric ==
  [edges |-> << <<"7">>, <<"W">> >>,
   lanes |-> ( <<"7">> :> <<TRUE>> @@ <<"W">> :> <<FALSE, FALSE>> ),
   shape |-> ( <<"7">> :> <<0, 0>> @@ <<"W">> :> <<7, 0>> )]

Networks == {NetAlpha, NetNumeric}

\* network.getEdge(edge_id), None when there is none
getEdge(net, edge_id) ==
  IF edge_id \in Range(net.edges) THEN edge_id ELSE None

is_valid_vehicle_edge(net, edge_id) ==
  LET edge == getEdge(net, edge_id) IN
    IF edge = None THEN FALSE
    ELSE \E l \in 1..Len(net.lanes[edge]) : net.lanes[edge][l]

\* Squared distance, in tenths squared, from (x, y) in tenths to an edge.
Dist2(net, e, x, y) ==
  LET dx == x - Scale * net.shape[e][1]
      dy == y - Scale * net.shape[e][2]
  IN dx * dx + dy * dy

\* net.getNeighboringEdges(x, y, r): the pairs (edge, distance) with
\* distance < r; distances are compared by their squares.
getNeighboringEdges(net, x, y, r) ==
  {<<e, Dist2(net, e, x, y)>> : e \in {f \in Range(net.edges) : Dist2(net, f, x, y) < r * r}}

\* The loop of find_nearest_edge from a given radius: the identifiers it
\* can return (edges at the same least distance are returned in the order
\* of the spatial index, which the script does not control).
RECURSIVE SearchFrom(_, _, _, _)
SearchFrom(net, x, y, radius) ==
  IF radius < max_radius * Scale THEN
    LET edges == getNeighboringEdges(net, x, y, radius) IN
      IF edges # {} THEN
        {m[1] : m \in {n \in edges : \A o \in edges : n[2] <= o[2]}}
      ELSE SearchFrom(net, x, y, radius * 2)
  ELSE {None}

find_nearest_edge(net, x, y) == SearchFrom(net, x, y, initial_radius)

\* ------------------------------------------------------------- environment
\* What the user may type at the first prompt of an endpoint, and at the
\* prompt for Y.
FirstInputs ==
  { <<"A">>, <<"7">>, <<"W">>, <<"Q">>, <<"0">>, <<"9", "0", "0">>,
    <<"2", "0", "0", "0">> }

SecondInputs == { <<"0", ".", "0">>, <<"n">> }

\* What random.uniform(0, 200) may return, in hundredths of a second.
DepartDraws == {50, 196, 204, 1000}

\* The one draw of the specifications that count the sampler's iterations.
FixedDraws == {1000}

\* The non-empty edge lists traci.simulation.findRoute may answer with: a
\* route exists only between edges a passenger car may use.
RouteAnswers(net, s, e) ==
  IF is_valid_vehicle_edge(net, s) /\ is_valid_vehicle_edge(net, e)
  THEN {IF s = e THEN <<s>> ELSE <<s, e>>}
  ELSE {}

\* ------------------------------------------------------------------- state
VARIABLES
  network,        \* main: the network read from net_file
  sumo_home,      \* 'SUMO_HOME' in os.environ
  pc,             \* the statement the script is at
  valid_edges,    \* main: valid_edges
  prompts,        \* the input() prompts issued so far
  start_inputs,   \* main: the lines read for the start (start_input, Y)
  start_edge,     \* main: start_edge
  start_how,      \* how start_edge was obtained: "coords", "id", "unset"
  start_xy,       \* main: (start_x, start_y) when both parsed, in tenths
  end_inputs,     \* main: the lines read for the destination
  end_edge,       \* main: end_edge
  end_how,        \* as start_how
  end_xy,         \* main: (end_x, end_y)
  route,          \* main: route
  fr_caller,      \* find_route: who called, "main" or "sampler"
  fr_args,        \* find_route: (start_edge, end_edge)
  fr_result,      \* find_route: what the try block left, a value or an error
  sessions,       \* the TraCI sessions that are open
  edges,          \* save_route_to_file: edges
  vehicles,       \* save_route_to_file: vehicles
  added_vehicles, \* save_route_to_file: added_vehicles
  attempts,       \* save_route_to_file: attempts
  random_route,   \* save_route_to_file: random_route
  requests,       \* find_route calls the sampler has made
  found,          \* those that returned a route
  route_file,     \* ../data/route.rou.xml as written by this run
  viz_edges,      \* save_visualization_settings: edges
  selections,     \* save_visualization_settings: children of <selections>
  viz_i,          \* save_visualization_settings: position of the for loop
  settings_file,  \* ../data/settings.xml as written by this run
  viewer_launched \* subprocess.run(sumo_gui_cmd) was called

mainVars == <<network, sumo_home, valid_edges, prompts, start_inputs,
              start_edge, start_how, start_xy, end_inputs, end_edge, end_how,
              end_xy, route>>
frVars   == <<fr_caller, fr_args, fr_result>>
srfVars  == <<edges, vehicles, added_vehicles, attempts, random_route,
              requests, found>>
vizVars  == <<viz_edges, selections, viz_i>>
outVars  == <<route_file, settings_file, viewer_launched>>
vars     == <<pc, mainVars, frVars, sessions, srfVars, vizVars, outVars>>

NoFile == [written |-> FALSE, children |-> <<>>]
NoResult == [kind |-> "none", value |-> None]

\* Everything but the position, the network and the environment.
Blank ==
  /\ valid_edges = <<>> /\ prompts = <<>>
  /\ start_inputs = <<>> /\ end_inputs = <<>>
  /\ start_edge = None /\ start_how = "unset" /\ start_xy = None
  /\ end_edge = None /\ end_how = "unset" /\ end_xy = None
  /\ route = None
  /\ fr_caller = "nobody" /\ fr_args = None /\ fr_result = NoResult
  /\ sessions = 0
  /\ edges = None /\ vehicles = <<>> /\ added_vehicles = 0 /\ attempts = 0
  /\ random_route = None /\ requests = 0 /\ found = 0
  /\ route_file = NoFile
  /\ viz_edges = None /\ selections = <<>> /\ viz_i = 0
  /\ settings_file = NoFile
  /\ viewer_launched = FALSE

\* The script is started.
Init ==
  /\ network \in Networks
  /\ sumo_home \in BOOLEAN
  /\ pc = "main"
  /\ Blank

\* --------------------------------------------------------------------- main
\* Lines 183-199: read the network, keep the edges a passenger car may use.
MainLoad ==
  /\ pc = "main"
  /\ valid_edges' = SelectSeq(network.edges,
                              LAMBDA e : is_valid_vehicle_edge(network, e))
  /\ pc' = "main_start"
  /\ UNCHANGED <<network, sumo_home, prompts, start_inputs, start_edge,
                 start_how, start_xy, end_inputs, end_edge, end_how, end_xy,
                 route, frVars, sessions, srfVars, vizVars, outVars>>

\* ResolveOutcomes without the membership test of lines 211 and 227.
ResolveOutcomesUnchecked(net, valid, line1, promptX, promptY) ==
  LET asId == [edge |-> line1, how |-> "id", xy |-> None]
  IN IF IsFloat(line1) THEN
       UNION { IF IsFloat(line2) THEN
                 { [edge |-> e, how |-> "coords",
                    xy |-> <<FloatTenths(line1), FloatTenths(line2)>>,
                    inputs |-> <<line1, line2>>,
                    asked |-> <<promptX, promptY>>]
                   : e \in find_nearest_edge(net, FloatTenths(line1),
                                             FloatTenths(line2)) }
               ELSE { asId @@ [inputs |-> <<line1, line2>>,
                               asked |-> <<promptX, promptY>>] }
             : line2 \in SecondInputs }
     ELSE { asId @@ [inputs |-> <<line1>>, asked |-> <<promptX>>] }

\* The try/except of lines 204-211 (and 220-227) on a first input: what the
\* endpoint becomes, how, and the prompts it took.
ResolveOutcomes(net, valid, line1, promptX, promptY) ==
  LET asId == [edge |-> IF line1 \in Range(valid) THEN line1 ELSE None,
               how |-> "id", xy |-> None]
  IN IF IsFloat(line1) THEN
       UNION { IF IsFloat(line2) THEN
                 { [edge |-> e, how |-> "coords",
                    xy |-> <<FloatTenths(line1), FloatTenths(line2)>>,
                    inputs |-> <<line1, line2>>,
                    asked |-> <<promptX, promptY>>]
                   : e \in find_nearest_edge(net, FloatTenths(line1),
                                             FloatTenths(line2)) }
               ELSE { asId @@ [inputs |-> <<line1, line2>>,
                               asked |-> <<promptX, promptY>>] }
             : line2 \in SecondInputs }
     ELSE { asId @@ [inputs |-> <<line1>>, asked |-> <<promptX>>] }

\* MainStart without the return of line 215.
MainStartNoReturn ==
  /\ pc = "main_start"
  /\ \E line1 \in FirstInputs :
       \E o \in ResolveOutcomes(network, valid_edges, line1,
                                 "start X", "start Y") :
         /\ start_inputs' = o.inputs
         /\ start_edge' = o.edge
         /\ start_how' = o.how
         /\ start_xy' = o.xy
         /\ prompts' = prompts \o o.asked
         /\ pc' = "main_end"
  /\ UNCHANGED <<network, sumo_home, valid_edges, end_inputs, end_edge,
                 end_how, end_xy, route, frVars, sessions, srfVars, vizVars,
                 outVars>>

\* Lines 203-216: the start location.
MainStart ==
  /\ pc = "main_start"
  /\ \E line1 \in FirstInputs :
       \E o \in ResolveOutcomes(network, valid_edges, line1,
                                 "start X", "start Y") :
         /\ start_inputs' = o.inputs
         /\ start_edge' = o.edge
         /\ start_how' = o.how
         /\ start_xy' = o.xy
         /\ prompts' = prompts \o o.asked
         /\ pc' = IF o.edge = None THEN "done" ELSE "main_end"
  /\ UNCHANGED <<network, sumo_home, valid_edges, end_inputs, end_edge,
                 end_how, end_xy, route, frVars, sessions, srfVars, vizVars,
                 outVars>>

\* Lines 219-232: the destination.
MainEnd ==
  /\ pc = "main_end"
  /\ \E line1 \in FirstInputs :
       \E o \in ResolveOutcomes(network, valid_edges, line1,
                                 "destination X", "destination Y") :
         /\ end_inputs' = o.inputs
         /\ end_edge' = o.edge
         /\ end_how' = o.how
         /\ end_xy' = o.xy
         /\ prompts' = prompts \o o.asked
         /\ pc' = IF o.edge = None THEN "done" ELSE "main_route"
  /\ UNCHANGED <<network, sumo_home, valid_edges, start_inputs, start_edge,
                 start_how, start_xy, route, frVars, sessions, srfVars,
                 vizVars, outVars>>

\* Line 235: main calls find_route(net_file, start_edge, end_edge).
MainCallFindRoute ==
  /\ pc = "main_route"
  /\ fr_caller' = "main"
  /\ fr_args' = <<start_edge, end_edge>>
  /\ fr_result' = NoResult
  /\ pc' = "fr_start"
  /\ UNCHANGED <<mainVars, sessions, srfVars, vizVars, outVars>>

\* --------------------------------------------------------------- find_route
\* Lines 11-20: leave when SUMO_HOME is not set; else traci.start, which
\* opens a session or raises.
FR_Start ==
  /\ pc = "fr_start"
  /\ IF ~sumo_home
     THEN /\ pc' = "exited"
          /\ UNCHANGED sessions
     ELSE \/ /\ sessions' = sessions + 1
             /\ pc' = "fr_query"
          \/ /\ pc' = "crashed"
             /\ UNCHANGED sessions
  /\ UNCHANGED <<mainVars, frVars, srfVars, vizVars, outVars>>

\* Lines 22-27: the query and the value the try block returns, or the error
\* the query raises.  The sampler is answered with a route only while fewer
\* than `budget` vehicles are recorded.
FR_Query(budget) ==
  /\ pc = "fr_query"
  /\ \/ \E answer \in {<<>>} \cup
                      (IF fr_caller = "sampler" /\ added_vehicles >= budget
                       THEN {}
                       ELSE RouteAnswers(network, fr_args[1], fr_args[2])) :
          fr_result' = [kind |-> "return",
                        value |-> IF answer # <<>> THEN answer ELSE None]
     \/ fr_result' = [kind |-> "raise", value |-> None]
  /\ pc' = "fr_close"
  /\ UNCHANGED <<mainVars, fr_caller, fr_args, sessions, srfVars, vizVars,
                 outVars>>

\* FR_Close with traci.close() after the try block instead of in finally.
FR_CloseNoFinally ==
  /\ pc = "fr_close"
  /\ IF fr_result.kind = "raise"
     THEN /\ pc' = "crashed"
          /\ UNCHANGED <<sessions, route, random_route, found>>
     ELSE IF fr_caller = "main"
     THEN /\ sessions' = sessions - 1
          /\ route' = fr_result.value
          /\ pc' = "main_found"
          /\ UNCHANGED <<random_route, found>>
     ELSE /\ sessions' = sessions - 1
          /\ random_route' = fr_result.value
          /\ found' = IF fr_result.value # None THEN found + 1 ELSE found
          /\ pc' = "srf_record"
          /\ UNCHANGED route
  /\ fr_caller' = "nobody"
  /\ fr_args' = None
  /\ fr_result' = NoResult
  /\ UNCHANGED <<network, sumo_home, valid_edges, prompts, start_inputs,
                 start_edge, start_how, start_xy, end_inputs, end_edge,
                 end_how, end_xy, edges, vehicles, added_vehicles, attempts,
                 requests, vizVars, outVars>>

\* Lines 29-30: the finally block closes the session; then the value goes
\* to the caller, or the error goes up through callers that do not catch it.
FR_Close ==
  /\ pc = "fr_close"
  /\ sessions' = sessions - 1
  /\ IF fr_result.kind = "raise"
     THEN /\ pc' = "crashed"
          /\ UNCHANGED <<route, random_route, found>>
     ELSE IF fr_caller = "main"
     THEN /\ route' = fr_result.value
          /\ pc' = "main_found"
          /\ UNCHANGED <<random_route, found>>
     ELSE /\ random_route' = fr_result.value
          /\ found' = IF fr_result.value # None THEN found + 1 ELSE found
          /\ pc' = "srf_record"
          /\ UNCHANGED route
  /\ fr_caller' = "nobody"
  /\ fr_args' = None
  /\ fr_result' = NoResult
  /\ UNCHANGED <<network, sumo_home, valid_edges, prompts, start_inputs,
                 start_edge, start_how, start_xy, end_inputs, end_edge,
                 end_how, end_xy, edges, vehicles, added_vehicles, attempts,
                 requests, vizVars, outVars>>

\* Lines 237 and 258-259: the branch on the route.
MainFound ==
  /\ pc = "main_found"
  /\ pc' = IF route # None THEN "main_save" ELSE "done"
  /\ UNCHANGED <<mainVars, frVars, sessions, srfVars, vizVars, outVars>>

\* ------------------------------------------------------- save_route_to_file
\* HighlightVehicle departing with the simulation start.
HighlightVehicleAtZero(es) ==
  [id |-> <<"route_highlight">>, type |-> "highlighted_car",
   depart |-> <<"0">>, edges |-> es]

\* Lines 61-66: the entry of the requested route.
HighlightVehicle(es) ==
  [id |-> <<"route_highlight">>, type |-> "highlighted_car",
   depart |-> <<"2">>, edges |-> es]

\* RandomVehicle numbered by the attempt instead of by the vehicles added.
RandomVehicleByAttempt(n, draw, es) ==
  [id |-> <<"random_vehicle_">> \o IntToStr(attempts), type |-> "car",
   depart |-> FormatOneDecimal(draw), edges |-> es]

\* Lines 84-89: the entry of a sampled route, from the draw of its departure.
RandomVehicle(n, draw, es) ==
  [id |-> <<"random_vehicle_">> \o IntToStr(n), type |-> "car",
   depart |-> FormatOneDecimal(draw), edges |-> es]

\* Line 98: the sort key.
DepartKey(v) == FloatTenths(v.depart)

\* InsertSorted placing an entry before the entries of equal key.
RECURSIVE InsertSortedUnstable(_, _)
InsertSortedUnstable(sorted, v) ==
  IF sorted = <<>> THEN <<v>>
  ELSE IF DepartKey(sorted[Len(sorted)]) < DepartKey(v) THEN Append(sorted, v)
  ELSE Append(InsertSortedUnstable(SubSeq(sorted, 1, Len(sorted) - 1), v),
              sorted[Len(sorted)])

\* list.sort(key=...): a stable sort, here by insertion from the left.
RECURSIVE InsertSorted(_, _)
InsertSorted(sorted, v) ==
  IF sorted = <<>> THEN <<v>>
  ELSE IF DepartKey(sorted[Len(sorted)]) <= DepartKey(v) THEN Append(sorted, v)
  ELSE Append(InsertSorted(SubSeq(sorted, 1, Len(sorted) - 1), v),
              sorted[Len(sorted)])

RECURSIVE SortVehicles(_)
SortVehicles(vs) ==
  IF vs = <<>> THEN <<>>
  ELSE InsertSorted(SortVehicles(SubSeq(vs, 1, Len(vs) - 1)), vs[Len(vs)])

\* Lines 37-55 and 101-107: the children of <routes>, in document order.
VTypeElement(name) ==
  [tag |-> "vType", id |-> name, type |-> "", depart |-> <<>>, edges |-> <<>>]

VehicleElement(v) ==
  [tag |-> "vehicle", id |-> v.id, type |-> v.type, depart |-> v.depart,
   edges |-> Join(v.edges)]

RoutesDocument(vs) ==
  << VTypeElement(<<"car">>), VTypeElement(<<"highlighted_car">>) >>
  \o [i \in 1..Len(vs) |-> VehicleElement(vs[i])]

\* SamplerContinues with <= for <.
SamplerContinuesOffByOne ==
  added_vehicles <= num_random_vehicles /\ attempts <= max_attempts

\* Line 74: the condition of the while loop.
SamplerContinues ==
  added_vehicles < num_random_vehicles /\ attempts < max_attempts

\* Line 239 and lines 33-72: main calls save_route_to_file, which starts the
\* vehicle list with the requested route.
SaveRouteBegin ==
  /\ pc = "main_save"
  /\ edges' = route
  /\ vehicles' = <<HighlightVehicle(route)>>
  /\ added_vehicles' = 0
  /\ attempts' = 0
  /\ pc' = "srf_loop"
  /\ UNCHANGED <<mainVars, frVars, sessions, random_route, requests, found,
                 vizVars, outVars>>

\* Lines 74-79: one more iteration picks two edges and calls find_route
\* (random.choice raises on an empty list); or the loop is left, line 95.
SamplerIterate ==
  /\ pc = "srf_loop"
  /\ IF SamplerContinues
     THEN IF valid_edges = <<>>
          THEN /\ pc' = "crashed"
               /\ UNCHANGED <<frVars, requests>>
          ELSE \E s \in Range(valid_edges), e \in Range(valid_edges) :
                 /\ fr_caller' = "sampler"
                 /\ fr_args' = <<s, e>>
                 /\ fr_result' = NoResult
                 /\ requests' = requests + 1
                 /\ pc' = "fr_start"
     ELSE /\ pc' = "srf_write"
          /\ UNCHANGED <<frVars, requests>>
  /\ UNCHANGED <<mainVars, sessions, edges, vehicles, added_vehicles,
                 attempts, random_route, found, vizVars, outVars>>

\* SamplerRecord with line 93 indented into the if.
SamplerRecordCountsSuccesses(draws) ==
  /\ pc = "srf_record"
  /\ IF random_route # None
     THEN \E draw \in draws :
            /\ vehicles' = Append(vehicles,
                             RandomVehicle(added_vehicles, draw, random_route))
            /\ added_vehicles' = added_vehicles + 1
            /\ attempts' = attempts + 1
     ELSE UNCHANGED <<vehicles, added_vehicles, attempts>>
  /\ pc' = "srf_loop"
  /\ UNCHANGED <<mainVars, frVars, sessions, edges, random_route, requests,
                 found, vizVars, outVars>>

\* Lines 81-93: record the vehicle when a route came back; count the attempt.
SamplerRecord(draws) ==
  /\ pc = "srf_record"
  /\ IF random_route # None
     THEN \E draw \in draws :
            /\ vehicles' = Append(vehicles,
                             RandomVehicle(added_vehicles, draw, random_route))
            /\ added_vehicles' = added_vehicles + 1
     ELSE UNCHANGED <<vehicles, added_vehicles>>
  /\ attempts' = attempts + 1
  /\ pc' = "srf_loop"
  /\ UNCHANGED <<mainVars, frVars, sessions, edges, random_route, requests,
                 found, vizVars, outVars>>

\* Lines 95-110: sort, add the vehicles to the document, write the file.
SaveRouteWrite ==
  /\ pc = "srf_write"
  /\ vehicles' = SortVehicles(vehicles)
  /\ route_file' = [written |-> TRUE,
                    children |-> RoutesDocument(SortVehicles(vehicles))]
  /\ pc' = "main_viz"
  /\ UNCHANGED <<mainVars, frVars, sessions, edges, added_vehicles, attempts,
                 random_route, requests, found, vizVars, settings_file,
                 viewer_launched>>

\* ---------------------------------------------- save_visualization_settings
\* Lines 160-164: the selection entry of one edge.
SelectionElement(e) ==
  [tag |-> "selection", id |-> e, color |-> "255,0,0", width |-> "4"]

\* Line 240 and lines 127-156: main calls save_visualization_settings.
VizBegin ==
  /\ pc = "main_viz"
  /\ viz_edges' = route
  /\ selections' = <<>>
  /\ viz_i' = 1
  /\ pc' = "viz_loop"
  /\ UNCHANGED <<mainVars, frVars, sessions, srfVars, outVars>>

\* Lines 159-164: one turn of the for loop.
VizAddSelection ==
  /\ pc = "viz_loop"
  /\ viz_i <= Len(viz_edges)
  /\ selections' = Append(selections, SelectionElement(viz_edges[viz_i]))
  /\ viz_i' = viz_i + 1
  /\ UNCHANGED <<pc, mainVars, frVars, sessions, srfVars, viz_edges, outVars>>

\* VizWrite leaving the loop one edge early.
VizWriteEarly ==
  /\ pc = "viz_loop"
  /\ viz_i >= Len(viz_edges)
  /\ settings_file' = [written |-> TRUE, children |-> selections]
  /\ pc' = "main_launch"
  /\ UNCHANGED <<mainVars, frVars, sessions, srfVars, vizVars, route_file,
                 viewer_launched>>

\* Lines 166-167: the loop is over, the file is written.
VizWrite ==
  /\ pc = "viz_loop"
  /\ viz_i > Len(viz_edges)
  /\ settings_file' = [written |-> TRUE, children |-> selections]
  /\ pc' = "main_launch"
  /\ UNCHANGED <<mainVars, frVars, sessions, srfVars, vizVars, route_file,
                 viewer_launched>>

\* Lines 242-257: the viewer is run.
Launch ==
  /\ pc = "main_launch"
  /\ viewer_launched' = TRUE
  /\ pc' = "done"
  /\ UNCHANGED <<mainVars, frVars, sessions, srfVars, vizVars, route_file,
                 settings_file>>

\* ----------------------------------------------------------- specifications
\* The whole script.  The sampler is answered with at most MaxSampled routes
\* and draws one departure time.
Next ==
  \/ MainLoad \/ MainStart \/ MainEnd \/ MainCallFindRoute
  \/ FR_Start \/ FR_Query(MaxSampled) \/ FR_Close
  \/ MainFound \/ SaveRouteBegin \/ SamplerIterate \/ SamplerRecord(FixedDraws)
  \/ SaveRouteWrite \/ VizBegin \/ VizAddSelection \/ VizWrite \/ Launch

Spec == Init /\ [][Next]_vars

\* The routes save_route_to_file and save_visualization_settings are given
\* in the specifications of one function: whatever the service answered.
RoutesUpTo(net, n) ==
  UNION {[1..k -> Range(net.edges)] : k \in 1..n}

\* main after the user named edge A of NetAlpha twice and find_route
\* returned r.
AfterRouteFound(r) ==
  /\ network = NetAlpha
  /\ sumo_home = TRUE
  /\ valid_edges = SelectSeq(NetAlpha.edges,
                             LAMBDA e : is_valid_vehicle_edge(NetAlpha, e))
  /\ prompts = <<"start X", "destination X">>
  /\ start_inputs = << <<"A">> >> /\ end_inputs = << <<"A">> >>
  /\ start_edge = <<"A">> /\ start_how = "id" /\ start_xy = None
  /\ end_edge = <<"A">> /\ end_how = "id" /\ end_xy = None
  /\ route = r
  /\ fr_caller = "nobody" /\ fr_args = None /\ fr_result = NoResult
  /\ sessions = 0
  /\ random_route = None
  /\ viz_edges = None /\ selections = <<>> /\ viz_i = 0
  /\ settings_file = NoFile
  /\ viewer_launched = FALSE

\* main is about to call save_route_to_file(route, valid_edges, net_file).
AtSaveRoute(r) ==
  /\ AfterRouteFound(r)
  /\ pc = "main_save"
  /\ edges = None /\ vehicles = <<>> /\ added_vehicles = 0 /\ attempts = 0
  /\ requests = 0 /\ found = 0
  /\ route_file = NoFile

\* save_route_to_file has returned after max_attempts requests that found
\* no route; main is about to call save_visualization_settings(route).
AtSaveVisualization(r) ==
  /\ AfterRouteFound(r)
  /\ pc = "main_viz"
  /\ edges = r /\ vehicles = <<HighlightVehicle(r)>>
  /\ added_vehicles = 0 /\ attempts = max_attempts
  /\ requests = max_attempts /\ found = 0
  /\ route_file = [written |-> TRUE,
                   children |-> RoutesDocument(<<HighlightVehicle(r)>>)]

\* save_route_to_file alone, with the sampler's full budget of routes and
\* one departure time: every pair of counters is explored.
SamplerInit == AtSaveRoute(<< <<"A">>, <<"W">> >>)

SamplerNext ==
  \/ SaveRouteBegin \/ SamplerIterate
  \/ FR_Start \/ FR_Query(num_random_vehicles) \/ FR_Close
  \/ SamplerRecord(FixedDraws) \/ SaveRouteWrite

SamplerSpec == SamplerInit /\ [][SamplerNext]_vars

\* save_route_to_file alone, with at most MaxSampled sampled vehicles and
\* every departure time: every order of the vehicle list is explored.
SceneInit == \E r \in RoutesUpTo(NetAlpha, 2) : r[1] = <<"A">> /\ AtSaveRoute(r)

SceneNext ==
  \/ SaveRouteBegin \/ SamplerIterate
  \/ FR_Start \/ FR_Query(MaxSampled) \/ FR_Close
  \/ SamplerRecord(DepartDraws) \/ SaveRouteWrite

SceneSpec == SceneInit /\ [][SceneNext]_vars

\* save_visualization_settings alone, on every route up to MaxRouteLen.
VizInit == \E r \in RoutesUpTo(NetAlpha, MaxRouteLen) : AtSaveVisualization(r)

VizNext == VizBegin \/ VizAddSelection \/ VizWrite

VizSpec == VizInit /\ [][VizNext]_vars

\* ------------------------------------------------------------------- claims
\* The vehicle elements of the scene document, in document order.
SceneVehicles == SelectSeq(route_file.children, LAMBDA c : c.tag = "vehicle")

\* The position at which a vehicle element was appended to the list:
\* the requested route first, then random_vehicle_0, random_vehicle_1, ...
InsertionIndex(c) ==
  IF c.id = <<"route_highlight">> THEN 0 ELSE 1 + DigitsValue(Tail(c.id))

\* C1: a session is open only between traci.start and the finally block of
\* one find_route call; it is closed when the call has returned or its
\* error has gone up, so none is open when a call starts and at most one is
\* open at any time.
SessionClosedOnEveryPath ==
  /\ sessions \in {0, 1}
  /\ pc \notin {"fr_query", "fr_close"} => sessions = 0

\* C1 witness: a request of the sampler raised inside the try block, the
\* session was closed and the error ended the run.
SessionClosedAfterError ==
  /\ pc = "crashed" /\ fr_caller = "nobody" /\ requests > 1 /\ sessions = 0

\* C2: the attempt counter never exceeds max_attempts, the vehicles added
\* never exceed num_random_vehicles nor the attempts.
SamplerWithinLimits ==
  /\ attempts <= max_attempts
  /\ added_vehicles <= num_random_vehicles
  /\ added_vehicles <= attempts
  /\ Len(vehicles) <= 1 + num_random_vehicles

\* C2 witness: the last permitted attempt adds the last permitted vehicle.
SamplerAtBothLimits ==
  /\ pc = "srf_write"
  /\ attempts = max_attempts /\ added_vehicles = num_random_vehicles

\* C3: when coordinates were given and some edge lies within max_radius of
\* them, find_nearest_edge returned an edge.
NearestEdgeFoundWithinMaxRadius ==
  LET within(xy) ==
        \E e \in Range(network.edges) :
          Dist2(network, e, xy[1], xy[2])
            <= (max_radius * Scale) * (max_radius * Scale)
  IN /\ (start_xy # None /\ within(start_xy)) => start_edge # None
     /\ (end_xy # None /\ within(end_xy)) => end_edge # None

\* C4: the vehicles of the written scene are in non-decreasing order of
\* float(depart), and vehicles of equal departure are in insertion order.
SceneSortedStable ==
  route_file.written =>
    \A i, j \in 1..Len(SceneVehicles) :
      i < j =>
        LET a == SceneVehicles[i]
            b == SceneVehicles[j]
        IN /\ FloatTenths(a.depart) <= FloatTenths(b.depart)
           /\ FloatTenths(a.depart) = FloatTenths(b.depart)
                => InsertionIndex(a) < InsertionIndex(b)

\* C4 witness: a written scene in which a sampled vehicle departs before
\* the requested route and another one at the same time as it.
SceneReorderedWithTie ==
  /\ route_file.written
  /\ Len(SceneVehicles) = 3
  /\ SceneVehicles[1].depart = <<"0", ".", "5">>
  /\ SceneVehicles[2].depart = <<"2">>
  /\ SceneVehicles[3].depart = <<"2", ".", "0">>

\* C5: the written scene holds exactly one vehicle route_highlight, of type
\* highlighted_car, departing at "2", whose edges read back as the
\* requested route.
HighlightAlwaysPresent ==
  route_file.written =>
    LET hs == {i \in 1..Len(SceneVehicles) :
                 SceneVehicles[i].id = <<"route_highlight">>}
    IN /\ Cardinality(hs) = 1
       /\ \A i \in hs :
            /\ SceneVehicles[i].type = "highlighted_car"
            /\ SceneVehicles[i].depart = <<"2">>
            /\ Split(SceneVehicles[i].edges) = route

\* C5 witness: a scene written after no request of the sampler found a
\* route.
SceneWithoutBackground ==
  /\ route_file.written /\ added_vehicles = 0 /\ attempts = max_attempts
  /\ Len(SceneVehicles) = 1

\* C6 as stated: the selection entries name exactly the edges of the route
\* and no edge is named by two entries.
SelectionsWithoutDuplicates ==
  settings_file.written =>
    LET sel == settings_file.children
    IN /\ {sel[i].id : i \in 1..Len(sel)} = Range(route)
       /\ \A i, j \in 1..Len(sel) : i # j => sel[i].id # sel[j].id

\* C6 as amended: there is one selection entry per position of the route,
\* in the order of the route: the entries name exactly the edges of the
\* route, and an edge is named once for each time the route visits it.
SelectionsFollowRoute ==
  settings_file.written =>
    LET sel == settings_file.children
    IN /\ Len(sel) = Len(route)
       /\ \A i \in 1..Len(sel) : sel[i].tag = "selection" /\ sel[i].id = route[i]
       /\ {sel[i].id : i \in 1..Len(sel)} = Range(route)

\* C6 witness: settings written for a route that visits an edge twice.
SettingsForRevisitingRoute ==
  /\ settings_file.written
  /\ \E i, j \in 1..Len(route) : i # j /\ route[i] = route[j]

\* C7: files are written and the viewer is launched only when both
\* endpoints are edges and the route is non-empty; the viewer is launched
\* after both files; a run that ends without them wrote nothing, launched
\* nothing and asked no prompt twice, and none for the destination when the
\* start was not resolved.
MainWritesOnlyAfterRoute ==
  LET resolved == /\ start_edge \in Range(network.edges)
                  /\ end_edge \in Range(network.edges)
                  /\ route # None
      nothing == /\ ~route_file.written /\ ~settings_file.written
                 /\ ~viewer_launched
      noRetry == \A i, j \in 1..Len(prompts) : i # j => prompts[i] # prompts[j]
  IN /\ ~nothing => resolved
     /\ viewer_launched => route_file.written /\ settings_file.written
     /\ (pc = "done" /\ ~resolved) =>
          /\ nothing
          /\ noRetry
          /\ start_edge = None => Range(prompts) \subseteq {"start X", "start Y"}

\* C7 witness: the run ended on a start input that is neither a number nor
\* a valid edge.
RunAbortedAtStart ==
  /\ pc = "done" /\ start_edge = None /\ start_how = "id"
  /\ prompts = <<"start X">>

\* C8: inside an iteration both counters are below their limits; once the
\* loop is left one of them is at its limit, attempts counts the requests
\* made, added_vehicles those that found a route, and the written scene
\* holds one vehicle more than that.
SamplerStopsAtLimit ==
  /\ pc \in {"fr_start", "fr_query", "fr_close", "srf_record"} =>
       added_vehicles < num_random_vehicles /\ attempts < max_attempts
  /\ pc \in {"srf_write", "main_viz"} =>
       /\ added_vehicles = num_random_vehicles \/ attempts = max_attempts
       /\ attempts = requests
       /\ added_vehicles = found
  /\ route_file.written => Len(SceneVehicles) = 1 + found

\* The statements save_route_to_file still has to execute, at most: five
\* per attempt that is left, and those left in the current iteration.
SamplerVariant ==
  CASE pc = "main_save"  -> 5 * (max_attempts - attempts) + 5
    [] pc = "srf_loop"   -> 5 * (max_attempts - attempts) + 4
    [] pc = "fr_start"   -> 5 * (max_attempts - attempts) + 3
    [] pc = "fr_query"   -> 5 * (max_attempts - attempts) + 2
    [] pc = "fr_close"   -> 5 * (max_attempts - attempts) + 1
    [] pc = "srf_record" -> 5 * (max_attempts - attempts)
    [] pc = "srf_write"  -> 1
    [] OTHER             -> 0

\* C8: the sampler stops as above, and it always comes to an end: every
\* step of save_route_to_file brings the end nearer.
SamplerTerminates ==
  /\ []SamplerStopsAtLimit
  /\ [](SamplerVariant >= 0)
  /\ [][SamplerVariant' < SamplerVariant]_vars

\* C8 witness: 30 routes found in 1000 attempts, 31 vehicles written.
SceneAfterThirtyOfThousand ==
  /\ route_file.written
  /\ attempts = 1000 /\ added_vehicles = 30
  /\ Len(SceneVehicles) = 31

\* C9: an endpoint is taken as an identifier exactly when its input did
\* not parse as two floats; it is then the first input if that is in
\* valid_edges and None otherwise; valid_edges holds the edges with a lane
\* that allows passenger; so an endpoint taken as an identifier and handed
\* to find_route is such an edge.
IdentifierPathValid ==
  LET parseFails(inputs) ==
        \/ ~IsFloat(inputs[1])
        \/ Len(inputs) = 2 /\ ~IsFloat(inputs[2])
      passenger(e) ==
        /\ e \in Range(network.edges)
        /\ \E l \in 1..Len(network.lanes[e]) : network.lanes[e][l]
      endpoint(inputs, how, edge) ==
        inputs # <<>> =>
          /\ how = "id" <=> parseFails(inputs)
          /\ how = "id" =>
               edge = IF inputs[1] \in Range(valid_edges)
                      THEN inputs[1] ELSE None
  IN /\ pc # "main" =>
          Range(valid_edges) = {e \in Range(network.edges) : passenger(e)}
     /\ endpoint(start_inputs, start_how, start_edge)
     /\ endpoint(end_inputs, end_how, end_edge)
     /\ fr_caller = "main" =>
          /\ start_how = "id" =>
               fr_args[1] = start_inputs[1] /\ passenger(fr_args[1])
          /\ end_how = "id" =>
               fr_args[2] = end_inputs[1] /\ passenger(fr_args[2])

\* C9 witness: a numeric first input followed by a Y that is no number is
\* handed to find_route as an edge identifier.
NumericIdentifierHandedOver ==
  /\ pc = "fr_start" /\ fr_caller = "main"
  /\ start_how = "id" /\ Len(start_inputs) = 2 /\ IsFloat(start_inputs[1])
  /\ end_how = "id"

\* The identifiers random_vehicle_0, random_vehicle_1, ... by their number.
SampledIds ==
  [k \in 0..num_random_vehicles |-> <<"random_vehicle_">> \o IntToStr(k)]

\* C10: during the loop the sampled vehicles are random_vehicle_0 ..
\* random_vehicle_(added_vehicles - 1), in that order, after the requested
\* route; the identifiers of the written scene are pairwise distinct.
SampledIdsConsecutive ==
  /\ pc \in {"srf_loop", "fr_start", "fr_query", "fr_close", "srf_record",
             "srf_write"} =>
       /\ Len(vehicles) = 1 + added_vehicles
       /\ vehicles[1].id = <<"route_highlight">>
       /\ \A k \in 0..(added_vehicles - 1) :
            vehicles[k + 2].id = SampledIds[k]
  /\ route_file.written =>
       \A i, j \in 1..Len(SceneVehicles) :
         i # j => SceneVehicles[i].id # SceneVehicles[j].id

\* C10 witness: vehicles were added although earlier attempts had failed.
SampledAfterFailures ==
  /\ pc = "srf_loop" /\ added_vehicles = 3 /\ attempts = 7

====
